---- MODULE Spec2Model ----
(***************************************************************************)
(* Model of src/main.py: the shared meal-card calculator.                  *)
(*                                                                         *)
(* State: the two tables of money_calculator.db (calculation_history and   *)
(* saved_settings), the wall clock read by datetime.utcnow, the request    *)
(* being served (call) and the response produced for it (resp).            *)
(*                                                                         *)
(* Money is a Python float.  Amounts are modelled as binary floating-point *)
(* numbers with a MantissaBits-bit significand (round to nearest, ties to  *)
(* even), scaled so that every amount is an integer: FAdd and FSub are the *)
(* float + and -.  Infinities and NaN are not modelled.                    *)
(***************************************************************************)
EXTENDS Integers, Sequences, FiniteSets, TLC

VARIABLES history, settings, clock, call, resp

vars == <<history, settings, clock, call, resp>>

----------------------------------------------------------------------------
(* Bounds of the model *)

MantissaBits == 7
MaxAmount == 2
MaxRecords == 2
TicksPerMinute == 2

\* rowids run up to MaxId and the clock up to MaxClock
MaxId == MaxRecords
MaxClock == MaxRecords - 1

(* Program constants *)

DefaultOthersMoney == 7
DefaultMyRemaining == 0
DefaultLimit == 20

----------------------------------------------------------------------------
(* float arithmetic *)

RECURSIVE UlpFrom(_, _)
UlpFrom(n, u) == IF n \div u < 2^MantissaBits THEN u ELSE UlpFrom(n, 2 * u)

\* nearest representable value to the natural number n, ties to even
RoundNat(n) ==
    LET u == UlpFrom(n, 1)
        q == n \div u
        r == n % u
    IN  IF r = 0 THEN n
        ELSE IF 2 * r < u THEN q * u
        ELSE IF 2 * r > u THEN (q + 1) * u
        ELSE IF q % 2 = 0 THEN q * u ELSE (q + 1) * u

FlRound(x) == IF x < 0 THEN 0 - RoundNat(0 - x) ELSE RoundNat(x)

FAdd(a, b) == FlRound(a + b)

FSub(a, b) == FlRound(a - b)

----------------------------------------------------------------------------
(* inputs *)

None == "<None>"

Amounts == -1 .. 1

\* an amount at the precision limit: Precise - 1 is not representable
Precise == 2^MantissaBits + 2

EngineAmounts == (-1 .. MaxAmount) \cup {Precise}

Notes == {None}

QuickNotes == {"lunch"}

CardCalculation(initial_total, my_initial, my_charge, final_total, note) ==
    [initial_total |-> initial_total, my_initial |-> my_initial,
     my_charge |-> my_charge, final_total |-> final_total, note |-> note]

ExampleCalculation == CardCalculation(100, 40, 10, 80, None)

ExampleQuick == [charge_amount |-> 5, final_total |-> 70, note |-> "lunch"]

SmallCalcRequests ==
    {CardCalculation(it, mi, mc, ft, n) :
        it \in Amounts, mi \in Amounts, mc \in Amounts, ft \in Amounts, n \in Notes}

CalcRequests == SmallCalcRequests \cup {ExampleCalculation}

EngineRequests ==
    {CardCalculation(it, mi, mc, ft, None) :
        it \in EngineAmounts, mi \in EngineAmounts,
        mc \in EngineAmounts, ft \in EngineAmounts}

SmallQuickRequests ==
    {[charge_amount |-> c, final_total |-> ft, note |-> n] :
        c \in Amounts, ft \in Amounts, n \in QuickNotes}

QuickRequests == SmallQuickRequests \cup {ExampleQuick}

RecordIds == 0 .. MaxId

Limits == {-1, 0, 1, DefaultLimit}

SettingKeys == {"others_money"}

SettingValues == {DefaultOthersMoney}

----------------------------------------------------------------------------
(* requests and responses *)

\* the store as a request finds it
Store == [history |-> history, settings |-> settings]

EmptyStore == [history |-> {}, settings |-> {}]

\* no request is being served
Idle == [op |-> "idle", args |-> <<>>, latest |-> {}, data |-> {}, before |-> EmptyStore]

\* the request being served: the endpoint, its parameters, the row read as
\* `latest` (none: {}), the CardCalculation handed to calculate_money
\* (none: {}) and the store as the request found it
Call(op, args, latest, data) ==
    [op |-> op, args |-> args, latest |-> latest, data |-> data, before |-> Store]

NoResponse == [status |-> 0, detail |-> "", body |-> <<>>]

HTTPException(status_code, detail) ==
    [status |-> status_code, detail |-> detail, body |-> <<>>]

Ok(body) == [status |-> 200, detail |-> "", body |-> body]

----------------------------------------------------------------------------
(* the store *)

MaxOf(S) == CHOOSE m \in S : \A x \in S : x <= m

\* SQLite rowid of the next inserted row
NextId(table) == IF table = {} THEN 1 ELSE MaxOf({r.id : r \in table}) + 1

\* values datetime.utcnow() can return now
Utcnow == {t \in {clock, clock + 1} : t <= MaxClock}

\* mutant: the oldest rows come first
Latest_oldest(table) ==
    {r \in table : \A q \in table : q.created_at >= r.created_at}

\* order_by(created_at.desc()).first(): the rows that can come first
Latest(table) == {r \in table : \A q \in table : q.created_at <= r.created_at}

\* mutant: the filter matches every row from record_id on
RecordById_from(table, record_id) == {r \in table : r.id >= record_id}

RecordById(table, record_id) == {r \in table : r.id = record_id}

SettingByKey(table, key) == {s \in table : s.key = key}

get_saved_value(table, key, default) ==
    IF SettingByKey(table, key) = {} THEN default
    ELSE (CHOOSE s \in SettingByKey(table, key) : TRUE).value

\* the orders in which order_by(created_at.desc()) can return the rows
OrderedDesc(table) ==
    LET n == Cardinality(table)
    IN  {s \in [1 .. n -> table] :
            /\ \A i, j \in 1 .. n : i # j => s[i] # s[j]
            /\ \A i, j \in 1 .. n : i < j => s[i].created_at >= s[j].created_at}

\* LIMIT n; a negative n is no limit in SQLite
Limit(s, n) == IF n < 0 \/ n >= Len(s) THEN s ELSE SubSeq(s, 1, n)

strftime(t) == t \div TicksPerMinute

----------------------------------------------------------------------------
(* error details (the messages of the HTTPExceptions) *)

NegativeAmount == "all amounts must be >= 0"
InitialExceedsTotal == "my initial amount cannot exceed the card total"
NegativeBalance == "the result shows a negative balance"
NegativeConsumption == "the result shows a negative consumption"
NoHistory == "no history found, use the full calculation"
NotFound == "record does not exist"

----------------------------------------------------------------------------
(* calculate_money *)

\* mutant: the two input checks in the other order
InputError_swapped(data) ==
    IF data.my_initial > data.initial_total THEN InitialExceedsTotal
    ELSE IF \/ data.initial_total < 0 \/ data.my_initial < 0
            \/ data.my_charge < 0 \/ data.final_total < 0
    THEN NegativeAmount
    ELSE ""

\* the checks made on the inputs, in order; "" when they pass
InputError(data) ==
    IF \/ data.initial_total < 0 \/ data.my_initial < 0
       \/ data.my_charge < 0 \/ data.final_total < 0
    THEN NegativeAmount
    ELSE IF data.my_initial > data.initial_total THEN InitialExceedsTotal
    ELSE ""

OthersMoney(data) == FSub(data.initial_total, data.my_initial)

MyAfterCharge(data) == FAdd(data.my_initial, data.my_charge)

TotalAfterCharge(data) == FAdd(data.initial_total, data.my_charge)

\* mutant: the remaining amount taken against my_initial
MyRemaining_initial(data) == FSub(data.final_total, data.my_initial)

MyRemaining(data) == FSub(data.final_total, OthersMoney(data))

\* mutant: the charge left out of the consumption
MyConsumed_nocharge(data) == FSub(data.my_initial, MyRemaining(data))

MyConsumed(data) == FSub(MyAfterCharge(data), MyRemaining(data))

\* the f-strings appended to steps: the formula shown, its operands, its result
Steps(data) ==
    << <<"others_money = initial_total - my_initial",
         data.initial_total, data.my_initial, OthersMoney(data)>>,
       <<"my_after_charge = my_initial + my_charge",
         data.my_initial, data.my_charge, MyAfterCharge(data)>>,
       <<"total_after_charge = initial_total + my_charge",
         data.initial_total, data.my_charge, TotalAfterCharge(data)>>,
       <<"my_remaining = final_total - others_money",
         data.final_total, OthersMoney(data), MyRemaining(data)>>,
       <<"my_consumed = my_after_charge - my_remaining",
         MyAfterCharge(data), MyRemaining(data), MyConsumed(data)>> >>

\* mutant: the consumption is not checked
ResultError_balance(my_remaining, my_consumed) ==
    IF my_remaining < 0 THEN NegativeBalance ELSE ""

\* the checks made on the results, in order; "" when they pass
ResultError(my_remaining, my_consumed) ==
    IF my_remaining < 0 THEN NegativeBalance
    ELSE IF my_consumed < 0 THEN NegativeConsumption
    ELSE ""

\* data.note or ""
NoteOrEmpty(note) == IF note = None \/ note = "" THEN "" ELSE note

CalculationHistory(id, data, created_at) ==
    [id |-> id,
     initial_total |-> data.initial_total,
     my_initial |-> data.my_initial,
     my_charge |-> data.my_charge,
     final_total |-> data.final_total,
     others_money |-> OthersMoney(data),
     my_remaining |-> MyRemaining(data),
     my_consumed |-> MyConsumed(data),
     note |-> NoteOrEmpty(data.note),
     created_at |-> created_at]

CalculationResult(record, data) ==
    [id |-> record.id,
     others_money |-> OthersMoney(data),
     my_remaining |-> MyRemaining(data),
     my_consumed |-> MyConsumed(data),
     calculation_steps |-> Steps(data),
     created_at |-> record.created_at]

\* a handler ends by raising: nothing is written
Raise(status_code, detail) ==
    /\ resp' = HTTPException(status_code, detail)
    /\ UNCHANGED <<history, settings, clock>>

calculate_money(data) ==
    IF InputError(data) # ""
    THEN Raise(400, InputError(data))
    ELSE IF ResultError(MyRemaining(data), MyConsumed(data)) # ""
    THEN Raise(400, ResultError(MyRemaining(data), MyConsumed(data)))
    ELSE \E now \in Utcnow :
            LET history_record == CalculationHistory(NextId(history), data, now)
            IN  /\ Cardinality(history) < MaxRecords
                /\ history_record.id <= MaxId
                /\ history' = history \cup {history_record}
                /\ clock' = now
                /\ resp' = Ok(CalculationResult(history_record, data))
                /\ UNCHANGED settings

PostCalculate(requests) ==
    \E data \in requests :
        /\ call.op = "idle"
        /\ call' = Call("calculate", data, {}, {data})
        /\ calculate_money(data)

----------------------------------------------------------------------------
(* quick_calculate *)

\* the CardCalculation built from the latest row
QuickData(latest, charge_amount, final_total, note) ==
    LET others_money == latest.others_money
        my_current_balance == latest.my_remaining
        my_after_charge == FAdd(my_current_balance, charge_amount)
        initial_total == FAdd(others_money, my_current_balance)
        new_initial_total == FAdd(initial_total, charge_amount)
    IN  CardCalculation(new_initial_total, my_current_balance,
                        charge_amount, final_total, note)

\* mutant: an empty history falls back on the defaults instead of failing
quick_calculate_defaults(charge_amount, final_total, note) ==
    LET args == [charge_amount |-> charge_amount,
                 final_total |-> final_total, note |-> note]
        defaults == [others_money |-> DefaultOthersMoney,
                     my_remaining |-> DefaultMyRemaining]
    IN  /\ call.op = "idle"
        /\ IF Latest(history) = {}
           THEN LET calc_data ==
                        QuickData(defaults, charge_amount, final_total, note)
                IN  /\ call' = Call("quick_calculate", args, {}, {calc_data})
                    /\ calculate_money(calc_data)
           ELSE \E latest \in Latest(history) :
                    LET calc_data ==
                            QuickData(latest, charge_amount, final_total, note)
                    IN  /\ call' = Call("quick_calculate", args, {latest}, {calc_data})
                        /\ calculate_money(calc_data)

quick_calculate(charge_amount, final_total, note) ==
    LET args == [charge_amount |-> charge_amount,
                 final_total |-> final_total, note |-> note]
    IN  /\ call.op = "idle"
        /\ IF Latest(history) = {}
           THEN /\ call' = Call("quick_calculate", args, {}, {})
                /\ Raise(400, NoHistory)
           ELSE \E latest \in Latest(history) :
                    LET calc_data ==
                            QuickData(latest, charge_amount, final_total, note)
                    IN  /\ call' = Call("quick_calculate", args, {latest}, {calc_data})
                        /\ calculate_money(calc_data)

PostQuickCalculate(requests) ==
    \E q \in requests :
        quick_calculate(q.charge_amount, q.final_total, q.note)

----------------------------------------------------------------------------
(* the views *)

get_defaults ==
    /\ call.op = "idle"
    /\ IF Latest(history) = {}
       THEN /\ call' = Call("get_defaults", <<>>, {}, {})
            /\ resp' = Ok([others_money |-> DefaultOthersMoney,
                           my_remaining |-> DefaultMyRemaining])
       ELSE \E latest \in Latest(history) :
                /\ call' = Call("get_defaults", <<>>, {latest}, {})
                /\ resp' = Ok([others_money |-> latest.others_money,
                               my_remaining |-> latest.my_remaining])
    /\ UNCHANGED <<history, settings, clock>>

get_latest_status ==
    /\ call.op = "idle"
    /\ IF Latest(history) = {}
       THEN /\ call' = Call("get_latest_status", <<>>, {}, {})
            /\ resp' = Ok([has_data |-> FALSE])
       ELSE \E latest \in Latest(history) :
                /\ call' = Call("get_latest_status", <<>>, {latest}, {})
                /\ resp' = Ok([has_data |-> TRUE,
                               others_money |-> latest.others_money,
                               my_remaining |-> latest.my_remaining,
                               last_calculation |-> strftime(latest.created_at)])
    /\ UNCHANGED <<history, settings, clock>>

get_history(limit) ==
    /\ call.op = "idle"
    /\ \E records \in OrderedDesc(history) :
            /\ call' = Call("get_history", [limit |-> limit], {}, {})
            /\ resp' = Ok(Limit(records, limit))
    /\ UNCHANGED <<history, settings, clock>>

GetHistory == \E limit \in Limits : get_history(limit)

----------------------------------------------------------------------------
(* deletion *)

delete_history(record_id) ==
    /\ call.op = "idle"
    /\ call' = Call("delete_history", [record_id |-> record_id], {}, {})
    /\ IF RecordById(history, record_id) = {}
       THEN Raise(404, NotFound)
       ELSE /\ history' = history \ RecordById(history, record_id)
            /\ resp' = Ok([message |-> "record deleted"])
            /\ UNCHANGED <<settings, clock>>

DeleteHistory == \E record_id \in RecordIds : delete_history(record_id)

\* mutant: only the history is cleared
clear_all_history_records ==
    /\ call.op = "idle"
    /\ call' = Call("clear_all_history", <<>>, {}, {})
    /\ history' = {}
    /\ resp' = Ok([message |-> "all data cleared"])
    /\ UNCHANGED <<settings, clock>>

clear_all_history ==
    /\ call.op = "idle"
    /\ call' = Call("clear_all_history", <<>>, {}, {})
    /\ history' = {}
    /\ settings' = {}
    /\ resp' = Ok([message |-> "all data cleared"])
    /\ UNCHANGED clock

----------------------------------------------------------------------------
(* saved settings *)

SavedSettings(id, key, value, updated_at) ==
    [id |-> id, key |-> key, value |-> value, updated_at |-> updated_at]

save_value(key, value) ==
    /\ call.op = "idle"
    /\ \E now \in Utcnow :
        /\ IF SettingByKey(settings, key) # {}
           THEN settings' =
                    (settings \ SettingByKey(settings, key)) \cup
                    {SavedSettings(s.id, s.key, value, now) :
                        s \in SettingByKey(settings, key)}
           ELSE settings' =
                    settings \cup {SavedSettings(NextId(settings), key, value, now)}
        /\ clock' = now
    /\ UNCHANGED <<history, call, resp>>

SaveValue == \E key \in SettingKeys, value \in SettingValues : save_value(key, value)

----------------------------------------------------------------------------
(* the response is sent and the request's session closed *)

get_db ==
    /\ call.op # "idle"
    /\ call' = Idle
    /\ resp' = NoResponse
    /\ UNCHANGED <<history, settings, clock>>

----------------------------------------------------------------------------
Init ==
    /\ history = {}
    /\ settings = {}
    /\ clock = 0
    /\ call = Idle
    /\ resp = NoResponse

\* the endpoints
Next ==
    \/ PostCalculate(CalcRequests)
    \/ PostQuickCalculate(QuickRequests)
    \/ get_defaults
    \/ get_latest_status
    \/ GetHistory
    \/ DeleteHistory
    \/ clear_all_history
    \/ get_db

Spec == Init /\ [][Next]_vars

\* the endpoints together with save_value, which no endpoint calls
NextSettings ==
    \/ PostCalculate(SmallCalcRequests)
    \/ PostQuickCalculate(SmallQuickRequests)
    \/ get_defaults
    \/ get_latest_status
    \/ GetHistory
    \/ DeleteHistory
    \/ clear_all_history
    \/ SaveValue
    \/ get_db

SpecSettings == Init /\ [][NextSettings]_vars

\* the calculation engine alone, on amounts up to the precision limit
NextEngine == PostCalculate(EngineRequests)

SpecEngine == Init /\ [][NextEngine]_vars

----------------------------------------------------------------------------
(* what the claims speak of *)

\* the request handed to calculate_money passes the four validation rules
Passes(d) ==
    /\ d.initial_total >= 0 /\ d.my_initial >= 0
    /\ d.my_charge >= 0 /\ d.final_total >= 0
    /\ d.my_initial <= d.initial_total
    /\ FSub(d.final_total, FSub(d.initial_total, d.my_initial)) >= 0
    /\ FSub(FAdd(d.my_initial, d.my_charge),
            FSub(d.final_total, FSub(d.initial_total, d.my_initial))) >= 0

\* the request is served by calculate_money, directly or through quick_calculate
Calculated == call.op \in {"calculate", "quick_calculate"} /\ call.data # {}

\* the row written by the request being served
Created == {r \in history \ call.before.history : r.id = resp.body.id}

----------------------------------------------------------------------------
(* C1: a successful quick_calculate carries others_money forward: the row  *)
(* it creates and the result it returns have the others_money of the row   *)
(* it started from, so every row of a chain of quick calculations has the  *)
(* others_money of the base calculation.                                   *)
C1_OthersMoneyCarriedForward ==
    (call.op = "quick_calculate" /\ resp.status = 200) =>
        \A latest \in call.latest :
            /\ resp.body.others_money = latest.others_money
            /\ \A r \in Created : r.others_money = latest.others_money

(* C2: a successful quick_calculate(charge_amount, final_total) on the     *)
(* latest row L returns my_remaining = final_total - L.others_money and    *)
(* my_consumed = (L.my_remaining + charge_amount) - my_remaining; after    *)
(* calculate(100, 40, 10, 80), quick_calculate(5, 70) delegates with       *)
(* initial_total 85, my_initial 20, my_charge 5 and yields my_remaining 10 *)
(* and my_consumed 15.                                                     *)
C2_QuickCalculateResult ==
    /\ (call.op = "quick_calculate" /\ resp.status = 200) =>
            \A latest \in call.latest :
                /\ resp.body.my_remaining =
                        FSub(call.args.final_total, latest.others_money)
                /\ resp.body.my_consumed =
                        FSub(FAdd(latest.my_remaining, call.args.charge_amount),
                             resp.body.my_remaining)
    /\ ( /\ call.op = "quick_calculate"
         /\ call.args = ExampleQuick
         /\ \E latest \in call.latest :
                latest.others_money = 60 /\ latest.my_remaining = 20 ) =>
            /\ call.data = {CardCalculation(85, 20, 5, 70, ExampleQuick.note)}
            /\ resp.status = 200
            /\ resp.body.my_remaining = 10
            /\ resp.body.my_consumed = 15

(* C3: every row of the history, whichever endpoint created it, has        *)
(* initial_total, my_charge, final_total >= 0, 0 <= my_initial <=          *)
(* initial_total, others_money = initial_total - my_initial, my_remaining  *)
(* = final_total - others_money >= 0 and my_consumed = (my_initial +       *)
(* my_charge) - my_remaining >= 0; calculate(100, 40, 10, 80) persists     *)
(* others_money 60, my_remaining 20, my_consumed 30.                       *)
C3_RecordInvariant ==
    /\ \A r \in history :
        /\ r.initial_total >= 0 /\ r.my_charge >= 0 /\ r.final_total >= 0
        /\ 0 <= r.my_initial /\ r.my_initial <= r.initial_total
        /\ r.others_money = FSub(r.initial_total, r.my_initial)
        /\ r.my_remaining = FSub(r.final_total, r.others_money)
        /\ r.my_remaining >= 0
        /\ r.my_consumed = FSub(FAdd(r.my_initial, r.my_charge), r.my_remaining)
        /\ r.my_consumed >= 0
    /\ (call.op = "calculate" /\ call.data = {ExampleCalculation}) =>
        /\ resp.status = 200
        /\ \E r \in Created :
            r.others_money = 60 /\ r.my_remaining = 20 /\ r.my_consumed = 30

\* a quick calculation has just added a row beside the row of the example
C3_Witness ==
    /\ call.op = "quick_calculate" /\ resp.status = 200
    /\ \E r \in Created : r.my_charge > 0
    /\ \E q \in history :
        /\ q.initial_total = 100 /\ q.my_initial = 40
        /\ q.others_money = 60 /\ q.my_remaining = 20 /\ q.my_consumed = 30

(* C4: a request served by calculate_money, directly or from               *)
(* quick_calculate, appends exactly one row when it passes the four        *)
(* validation rules and leaves the rows and the settings as they were when *)
(* any rule rejects it.                                                    *)
C4_OneRecordOrNone ==
    Calculated =>
        \A d \in call.data :
            IF Passes(d)
            THEN /\ resp.status = 200
                 /\ call.before.history \subseteq history
                 /\ Cardinality(history) = Cardinality(call.before.history) + 1
                 /\ Cardinality(Created) = 1
                 /\ \A r \in Created :
                        /\ r.initial_total = d.initial_total
                        /\ r.my_initial = d.my_initial
                        /\ r.my_charge = d.my_charge
                        /\ r.final_total = d.final_total
                 /\ settings = call.before.settings
            ELSE /\ resp.status = 400
                 /\ history = call.before.history
                 /\ settings = call.before.settings

\* a quick calculation rejected on its results, with rows and settings stored
C4_Witness ==
    /\ call.op = "quick_calculate" /\ call.data # {}
    /\ resp.status = 400 /\ resp.detail = NegativeConsumption
    /\ history # {} /\ settings # {}
    /\ history = call.before.history /\ settings = call.before.settings

(* C5: calculate reports the first rule that fails, in the order: a        *)
(* negative amount; my_initial > initial_total; my_remaining < 0;          *)
(* my_consumed < 0; each with its own message.  A request breaking the     *)
(* first two reports the first, and my_initial > initial_total with no     *)
(* negative amount reports the second whatever the other amounts.          *)
C5_FirstFailingRule ==
    /\ Cardinality({NegativeAmount, InitialExceedsTotal,
                    NegativeBalance, NegativeConsumption, ""}) = 5
    /\ Calculated =>
        \A d \in call.data :
            LET negative == \/ d.initial_total < 0 \/ d.my_initial < 0
                            \/ d.my_charge < 0 \/ d.final_total < 0
                exceeds == d.my_initial > d.initial_total
                remaining == FSub(d.final_total,
                                  FSub(d.initial_total, d.my_initial))
                consumed == FSub(FAdd(d.my_initial, d.my_charge), remaining)
            IN  /\ negative =>
                    resp.status = 400 /\ resp.detail = NegativeAmount
                /\ (~negative /\ exceeds) =>
                    resp.status = 400 /\ resp.detail = InitialExceedsTotal
                /\ (~negative /\ ~exceeds /\ remaining < 0) =>
                    resp.status = 400 /\ resp.detail = NegativeBalance
                /\ (~negative /\ ~exceeds /\ remaining >= 0 /\ consumed < 0) =>
                    resp.status = 400 /\ resp.detail = NegativeConsumption
                /\ (~negative /\ ~exceeds /\ remaining >= 0 /\ consumed >= 0) =>
                    resp.status = 200

\* a request that breaks the first two rules is answered with the first
C5_Witness ==
    /\ call.op = "calculate"
    /\ \E d \in call.data :
        /\ d.initial_total < 0 /\ d.my_initial > d.initial_total
        /\ d.my_initial >= 0 /\ d.my_charge >= 0 /\ d.final_total >= 0
    /\ resp.status = 400 /\ resp.detail = NegativeAmount

(* C6: quick_calculate on an empty history fails with the no-history       *)
(* error for every charge_amount and final_total, hands nothing to         *)
(* calculate_money and leaves rows and settings as they were.              *)
C6_QuickNeedsHistory ==
    (call.op = "quick_calculate" /\ call.before.history = {}) =>
        /\ resp.status = 400 /\ resp.detail = NoHistory
        /\ call.data = {} /\ call.latest = {}
        /\ history = {}
        /\ settings = call.before.settings

\* negative inputs on an empty history, with a setting stored
C6_Witness ==
    /\ call.op = "quick_calculate" /\ call.before.history = {}
    /\ call.args.charge_amount < 0 /\ call.args.final_total < 0
    /\ resp.status = 400 /\ resp.detail = NoHistory
    /\ settings # {}

(* C7: delete_history of an id that no row has fails with not-found and    *)
(* leaves rows and settings as they were; of an id that a row has, it      *)
(* removes that one row and leaves the other rows and the settings.        *)
C7_DeleteById ==
    call.op = "delete_history" =>
        LET hit == {r \in call.before.history : r.id = call.args.record_id}
        IN  IF hit = {}
            THEN /\ resp.status = 404 /\ resp.detail = NotFound
                 /\ history = call.before.history
                 /\ settings = call.before.settings
            ELSE /\ resp.status = 200
                 /\ Cardinality(hit) = 1
                 /\ history = call.before.history \ hit
                 /\ settings = call.before.settings

\* one of two rows deleted, the other row and a setting left
C7_Witness ==
    /\ call.op = "delete_history" /\ resp.status = 200
    /\ Cardinality(call.before.history) = 2
    /\ Cardinality(history) = 1
    /\ settings # {}

(* C8: clear_all_history can be called in every state and removes every    *)
(* row and every setting; on the store it leaves, get_defaults returns the *)
(* fallback {others_money: 7, my_remaining: 0}, get_latest_status returns  *)
(* has_data = false and get_history returns the empty list.                *)
C8_ClearAll ==
    /\ call.op = "idle" => ENABLED clear_all_history
    /\ call.op = "clear_all_history" =>
        resp.status = 200 /\ history = {} /\ settings = {}
    /\ (call.op = "get_defaults" /\ call.before.history = {}) =>
        resp.body = [others_money |-> 7, my_remaining |-> 0]
    /\ (call.op = "get_latest_status" /\ call.before.history = {}) =>
        resp.body = [has_data |-> FALSE]
    /\ (call.op = "get_history" /\ call.before.history = {}) =>
        resp.body = <<>>

\* rows and settings were there to be cleared
C8_Witness ==
    /\ call.op = "clear_all_history"
    /\ call.before.history # {} /\ call.before.settings # {}
    /\ history = {} /\ settings = {}

(* C9: get_defaults and get_latest_status report the others_money and the  *)
(* my_remaining of a row with the greatest created_at of the history; on   *)
(* an empty history get_defaults returns the fallback and                  *)
(* get_latest_status has_data = false.  Neither changes the store.         *)
C9_ViewsReportLatest ==
    call.op \in {"get_defaults", "get_latest_status"} =>
        /\ resp.status = 200
        /\ history = call.before.history
        /\ settings = call.before.settings
        /\ IF history = {}
           THEN IF call.op = "get_defaults"
                THEN resp.body = [others_money |-> 7, my_remaining |-> 0]
                ELSE resp.body = [has_data |-> FALSE]
           ELSE /\ \E r \in history :
                    /\ \A q \in history : q.created_at <= r.created_at
                    /\ resp.body.others_money = r.others_money
                    /\ resp.body.my_remaining = r.my_remaining
                /\ call.op = "get_latest_status" => resp.body.has_data

\* two rows of different dates and amounts: the later one is reported
C9_Witness ==
    /\ call.op = "get_defaults"
    /\ \E r, q \in history :
        /\ r.created_at > q.created_at
        /\ r.others_money # q.others_money
        /\ r.my_remaining # q.my_remaining
        /\ resp.body.others_money = r.others_money
        /\ resp.body.my_remaining = r.my_remaining

(* C10, as stated: a request with no negative amount and my_initial <=     *)
(* initial_total is accepted exactly when initial_total - my_initial <=    *)
(* final_total <= initial_total + my_charge; below the window it gets the  *)
(* negative-balance error and above it the negative-consumption error.     *)
C10_ExactWindow ==
    Calculated =>
        \A d \in call.data :
            ( /\ d.initial_total >= 0 /\ d.my_initial >= 0
              /\ d.my_charge >= 0 /\ d.final_total >= 0
              /\ d.my_initial <= d.initial_total ) =>
                LET low == d.initial_total - d.my_initial
                    high == d.initial_total + d.my_charge
                IN  /\ resp.status = 200 <=>
                            (low <= d.final_total /\ d.final_total <= high)
                    /\ d.final_total < low => resp.detail = NegativeBalance
                    /\ d.final_total > high => resp.detail = NegativeConsumption
                    /\ ~(d.final_total < low /\ d.final_total > high)

(* C10, amended: the window is the one of the rounded values the code      *)
(* computes.  With others_money = initial_total - my_initial and           *)
(* my_remaining = final_total - others_money as floats, the request is     *)
(* accepted exactly when others_money <= final_total and my_remaining <=   *)
(* my_initial + my_charge (the float sum); final_total < others_money gets *)
(* the negative-balance error, my_remaining above the sum the              *)
(* negative-consumption error, and never both apply.                       *)
C10_RoundedWindow ==
    Calculated =>
        \A d \in call.data :
            ( /\ d.initial_total >= 0 /\ d.my_initial >= 0
              /\ d.my_charge >= 0 /\ d.final_total >= 0
              /\ d.my_initial <= d.initial_total ) =>
                LET others == FSub(d.initial_total, d.my_initial)
                    remaining == FSub(d.final_total, others)
                    charged == FAdd(d.my_initial, d.my_charge)
                    below == d.final_total < others
                    above == ~below /\ remaining > charged
                IN  /\ resp.status = 200 <=> (~below /\ ~above)
                    /\ resp.status = 200 => Cardinality(Created) = 1
                    /\ below => resp.status = 400 /\ resp.detail = NegativeBalance
                    /\ above => resp.status = 400 /\ resp.detail = NegativeConsumption
                    /\ ~(below /\ remaining > charged)

\* a request inside the exact window that rounding makes the code reject
C10_Witness ==
    /\ call.op = "calculate"
    /\ \E d \in call.data :
        /\ d.my_initial >= 0 /\ d.my_charge >= 0
        /\ d.my_initial <= d.initial_total
        /\ d.initial_total - d.my_initial <= d.final_total
        /\ d.final_total <= d.initial_total + d.my_charge
    /\ resp.status = 400 /\ resp.detail = NegativeConsumption

====
